---- MODULE Spec2Model ----
(***************************************************************************)
(* Cart live totals and soft AJAX sync of shop/js/scripts.js.              *)
(*                                                                         *)
(* Text is a sequence of one-character strings.  Two characters that the   *)
(* formatter emits have no ASCII form and are written as tokens: NBSP      *)
(* (U+00A0) and EURO (U+20AC).                                             *)
(*                                                                         *)
(* A JavaScript number is a record [fin, c]: fin = FALSE is NaN, otherwise *)
(* the number is c hundredths (cents).  Every amount of the model has at   *)
(* most two decimals, for which IEEE double products and sums followed by  *)
(* toFixed(2) or by the currency formatter give the exact decimal result.  *)
(***************************************************************************)
EXTENDS Integers, Sequences, FiniteSets, TLC

NBSP == "nbsp"
EURO == "euro"

Digits == {"0", "1", "2", "3", "4", "5", "6", "7", "8", "9"}

DigitVal(ch) ==
  CASE ch = "0" -> 0 [] ch = "1" -> 1 [] ch = "2" -> 2 [] ch = "3" -> 3
    [] ch = "4" -> 4 [] ch = "5" -> 5 [] ch = "6" -> 6 [] ch = "7" -> 7
    [] ch = "8" -> 8 [] ch = "9" -> 9

DigitChar(d) ==
  CASE d = 0 -> "0" [] d = 1 -> "1" [] d = 2 -> "2" [] d = 3 -> "3"
    [] d = 4 -> "4" [] d = 5 -> "5" [] d = 6 -> "6" [] d = 7 -> "7"
    [] d = 8 -> "8" [] d = 9 -> "9"

NaN == [fin |-> FALSE, c |-> 0]
Num(c) == [fin |-> TRUE, c |-> c]

\* Number.isFinite(n) ? n : 0
FiniteOrZero(n) == IF n.fin THEN n ELSE Num(0)

\* a * b of two numbers; NaN is absorbing
Times(a, b) == IF a.fin /\ b.fin THEN Num((a.c * b.c) \div 100) ELSE NaN

\* a + b of two numbers
Plus(a, b) == IF a.fin /\ b.fin THEN Num(a.c + b.c) ELSE NaN

\* Math.max(0, n): NaN if n is NaN
MaxZero(n) == IF ~n.fin THEN NaN ELSE IF n.c < 0 THEN Num(0) ELSE n

Abs(i) == IF i < 0 THEN 0 - i ELSE i

\* the decimal digits of a natural number
RECURSIVE NatDigits(_)
NatDigits(n) ==
  IF n < 10 THEN <<DigitChar(n)>>
  ELSE Append(NatDigits(n \div 10), DigitChar(n % 10))

\* the value of the digits s[i..j], after the digits of value acc
RECURSIVE DigitsVal(_, _, _, _)
DigitsVal(s, i, j, acc) ==
  IF i > j THEN acc ELSE DigitsVal(s, i + 1, j, 10 * acc + DigitVal(s[i]))

\* the last position of the run of digits of s that starts at i (i - 1 if
\* there is none)
RECURSIVE DigitsEnd(_, _)
DigitsEnd(s, i) ==
  IF i > Len(s) \/ s[i] \notin Digits THEN i - 1 ELSE DigitsEnd(s, i + 1)

\* digits grouped by three from the right with "." between the groups
RECURSIVE Grouped(_)
Grouped(ds) ==
  IF Len(ds) <= 3 THEN ds
  ELSE Grouped(SubSeq(ds, 1, Len(ds) - 3)) \o <<".">>
         \o SubSeq(ds, Len(ds) - 2, Len(ds))

Cents2(c) == <<DigitChar((c % 100) \div 10), DigitChar(c % 10)>>

\* Intl.NumberFormat('de-DE', {style: 'currency', currency: 'EUR'}).format
euroFormatter(c) ==
  (IF c < 0 THEN <<"-">> ELSE <<>>)
    \o Grouped(NatDigits(Abs(c) \div 100)) \o <<",">> \o Cents2(Abs(c))
    \o <<NBSP, EURO>>

formatEuro(n) == euroFormatter(FiniteOrZero(n).c)

\* Number.prototype.toFixed(2), as text
toFixed2(n) ==
  IF ~n.fin THEN <<"N", "a", "N">>
  ELSE (IF n.c < 0 THEN <<"-">> ELSE <<>>)
         \o NatDigits(Abs(n.c) \div 100) \o <<".">> \o Cents2(Abs(n.c))

\* String(n) of a number: the shortest decimal text
NumberToString(n) ==
  IF ~n.fin THEN <<"N", "a", "N">>
  ELSE LET a == Abs(n.c)
           frac == IF a % 100 = 0 THEN <<>>
                   ELSE IF a % 10 = 0 THEN <<".", DigitChar((a % 100) \div 10)>>
                   ELSE <<".">> \o Cents2(a)
       IN (IF n.c < 0 THEN <<"-">> ELSE <<>>) \o NatDigits(a \div 100) \o frac

\* parseFloat of text without white space or exponent: the longest numeric
\* prefix [sign] digits [. digits] with at least one digit, else NaN.  The
\* value is kept to the cent.
parseFloat(s) ==
  LET first == IF s # <<>> /\ s[1] \in {"-", "+"} THEN 2 ELSE 1
      ie == DigitsEnd(s, first)
      fe == IF ie < Len(s) /\ s[ie + 1] = "." THEN DigitsEnd(s, ie + 2)
            ELSE ie + 1
      nf == fe - (ie + 1)
      whole == DigitsVal(s, first, ie, 0)
      cents == IF nf = 0 THEN 0
               ELSE IF nf = 1 THEN 10 * DigitVal(s[ie + 2])
               ELSE DigitsVal(s, ie + 2, ie + 3, 0)
      mag == 100 * whole + cents
  IN IF ie < first /\ nf = 0 THEN NaN
     ELSE Num(IF s[1] = "-" THEN 0 - mag ELSE mag)

\* parseInt(s, 10) of text without leading white space
parseInt(s) ==
  LET first == IF s # <<>> /\ s[1] \in {"-", "+"} THEN 2 ELSE 1
      ie == DigitsEnd(s, first)
      whole == DigitsVal(s, first, ie, 0)
  IN IF ie < first THEN NaN
     ELSE Num(100 * (IF s[1] = "-" THEN 0 - whole ELSE whole))

NumericChars == Digits \cup {",", ".", "-"}

IsNumericChar(ch) == ch \in NumericChars

\* .replace(/[^\d,.-]/g, '')
StripNonNumeric(s) == SelectSeq(s, IsNumericChar)

\* position i holds a "." followed by three digits and then a non-digit or
\* the end: /\.(?=\d{3}(\D|$))/
GroupingDot(s, i) ==
  /\ s[i] = "."
  /\ i + 3 <= Len(s)
  /\ s[i + 1] \in Digits
  /\ s[i + 2] \in Digits
  /\ s[i + 3] \in Digits
  /\ (i + 3 = Len(s) \/ s[i + 4] \notin Digits)

\* s from position i on without its grouping dots
RECURSIVE DropFrom(_, _)
DropFrom(s, i) ==
  IF i > Len(s) THEN <<>>
  ELSE IF GroupingDot(s, i) THEN DropFrom(s, i + 1)
  ELSE <<s[i]>> \o DropFrom(s, i + 1)

\* a slip: the regular expression without its g flag drops one dot only
RECURSIVE DropFirstFrom(_, _)
DropFirstFrom(s, i) ==
  IF i > Len(s) THEN <<>>
  ELSE IF GroupingDot(s, i) THEN SubSeq(s, i + 1, Len(s))
  ELSE <<s[i]>> \o DropFirstFrom(s, i + 1)

DropFirstGroupingDot(s) == DropFirstFrom(s, 1)

\* .replace(/\.(?=\d{3}(\D|$))/g, '')
DropGroupingDots(s) == DropFrom(s, 1)

\* .replace(',', '.'): the first comma only
RECURSIVE ReplaceFirstComma(_)
ReplaceFirstComma(s) ==
  IF s = <<>> THEN s
  ELSE IF Head(s) = "," THEN <<".">> \o Tail(s)
  ELSE <<Head(s)>> \o ReplaceFirstComma(Tail(s))

parseEuro(str) ==
  LET s == DropGroupingDots(StripNonNumeric(str))
      withDot == ReplaceFirstComma(s)
      n == parseFloat(withDot)
  IN FiniteOrZero(n)

(***************************************************************************)
(* The cart page.  The markup comes from the server and is not part of the *)
(* scripts; Page is the rendered cart the scripts run on: per row the      *)
(* data-unit attribute (empty = absent), the .js-unit text, the value of   *)
(* the .js-qty input, the .js-line-total text and its data-value, and      *)
(* price, the unit price in cents of the row.  The unit text of row 1      *)
(* shows a pack price and does not read as the unit price of its data-unit.*)
(* Every quantity input sits in a row and in its update form, and the page *)
(* has the subtotal element, as the scripts expect of the markup.          *)
(***************************************************************************)
Page ==
  <<[dataUnit |-> <<"1", "2", ".", "5", "0">>,
     unitText |-> <<"2", " ", "x", " ", "6", ",", "2", "5", NBSP, EURO>>,
     qty |-> <<"1">>,
     lineText |-> <<"1", "2", ",", "5", "0", NBSP, EURO>>,
     dataValue |-> <<>>,
     price |-> 1250],
    [dataUnit |-> <<>>,
     unitText |-> <<"1", ".", "2", "5", "0", ",", "0", "0", NBSP, EURO>>,
     qty |-> <<"1">>,
     lineText |-> <<"1", ".", "2", "5", "0", ",", "0", "0", NBSP, EURO>>,
     dataValue |-> <<"1", "2", "5", "0", ".", "0", "0">>,
     price |-> 125000]>>

Rows == DOMAIN Page

\* what a user or a script leaves in a quantity field while answers arrive
QtyTexts == {<<>>, <<"3">>, <<"-", "5">>, <<"a", "b", "c">>}

\* what a user or a script leaves in a quantity field while none arrives
TypedTexts ==
  QtyTexts \cup {<<"0">>, <<"1", "2">>, <<"0", "0", "7">>, <<"-", "x">>}

\* requests of quantity changes that may be in flight at once
MaxInflight == 2

(***************************************************************************)
(* What postForm can come back with: a thrown error (network failure or a  *)
(* rejected request, or a JSON body that does not parse), a text body, or  *)
(* a JSON object.  A field of kind "absent" is missing, "num" is a JSON    *)
(* number of c cents, "str" a decimal string with two decimals, "bad" a    *)
(* string holding no number.  A display field is text, empty when absent.  *)
(***************************************************************************)
Absent == [kind |-> "absent", c |-> 0]
JNum(c) == [kind |-> "num", c |-> c]
JStr(c) == [kind |-> "str", c |-> c]
JBad == [kind |-> "bad", c |-> 0]

Json(ok, lt, ltd, st, std) ==
  [kind |-> "json", ok |-> ok, line_total |-> lt, line_total_display |-> ltd,
   subtotal |-> st, subtotal_display |-> std]

Outcomes ==
  <<[kind |-> "error"],
    [kind |-> "text"],
    Json(FALSE, JNum(3600), <<>>, JNum(3849), <<>>),
    Json(TRUE, JNum(3600), <<>>, JNum(3849), <<>>),
    Json(TRUE, JStr(123450), <<"1", "2", "3", "4", ",", "5", EURO>>,
         JStr(124700), <<"1", "2", "4", "7", EURO>>),
    Json(TRUE, JBad, <<>>, Absent, <<>>),
    Json(TRUE, Absent, <<>>, JNum(50), <<>>)>>

\* String(field) of a present field
FieldText(f) ==
  CASE f.kind = "num" -> NumberToString(Num(f.c))
    [] f.kind = "str" -> toFixed2(Num(f.c))
    [] f.kind = "bad" -> <<"a", "b", "c">>

VARIABLES
  rendered,  \* the rows in the document, in document order by number
  row,       \* per row: qty (input value), lineText, dataValue
  subText,   \* text of #js-cart-subtotal
  inflight,  \* per row, the awaited postForm calls of onChange
  stale,     \* the awaited postForm calls whose row left the document
  listeners, \* the cart's listeners on the document, counted per event type
  euro,      \* an amount, a text made from it or typed, and its parse
  server,    \* the quantity of each row in the cart the server keeps
  wire,      \* the quantity changes posted, with the answer once made
  find       \* the AJAX search: its requests, its timer, what is shown

vars ==
  <<rendered, row, subText, inflight, stale, listeners, euro, server, wire,
    find>>

\* what the cart's handlers leave alone
apart == <<euro, server, wire, find>>

\* the page and the calls awaited, as one value
Cur ==
  [rendered |-> rendered, row |-> row, sub |-> subText,
   inflight |-> inflight, stale |-> stale]

\* the page and the calls awaited become those of n
Become(n) ==
  /\ rendered' = n.rendered
  /\ row' = n.row
  /\ subText' = n.sub
  /\ inflight' = n.inflight
  /\ stale' = n.stale

Fresh(r) ==
  [qty |-> Page[r].qty, lineText |-> Page[r].lineText,
   dataValue |-> Page[r].dataValue]

\* el.dataset.value || el.textContent || 0, as parseEuro receives it
LineSource(el) ==
  IF el.dataValue # <<>> THEN el.dataValue
  ELSE IF el.lineText # <<>> THEN el.lineText
  ELSE <<"0">>

\* a slip: the rows that left the document are summed too
RECURSIVE SumEveryRow(_, _, _)
SumEveryRow(rw, rend, r) ==
  IF r > Len(Page) THEN Num(0)
  ELSE Plus(parseEuro(LineSource(rw[r])), SumEveryRow(rw, rend, r + 1))

\* the forEach over document.querySelectorAll('.js-line-total')
RECURSIVE SumLines(_, _, _)
SumLines(rw, rend, r) ==
  IF r > Len(Page) THEN Num(0)
  ELSE LET rest == SumLines(rw, rend, r + 1)
       IN IF r \in rend THEN Plus(parseEuro(LineSource(rw[r])), rest)
          ELSE rest

\* the row's quantity as computeRow reads it
RowQty(el) ==
  MaxZero(parseInt(IF el.qty = <<>> THEN <<"0">> ELSE el.qty))

\* a slip: the unit text is read although the row has a data-unit
RowUnitFromText(r) == parseEuro(Page[r].unitText)

\* the row's unit price as computeRow reads it
RowUnit(r) ==
  IF Page[r].dataUnit # <<>> THEN parseEuro(Page[r].dataUnit)
  ELSE parseEuro(Page[r].unitText)

\* a slip: the line total is added to the one the row holds
computeRowAdding(rw, rend, r) ==
  LET total == Plus(parseEuro(LineSource(rw[r])),
                    Times(RowQty(rw[r]), RowUnit(r)))
      rw1 == [rw EXCEPT ![r].lineText = formatEuro(total),
                         ![r].dataValue = toFixed2(total)]
  IN [row |-> rw1, sub |-> formatEuro(SumLines(rw1, rend, 1))]

\* a slip: every row is recomputed
computeRowAll(rw, rend, r) ==
  LET rw1 == [x \in Rows |->
                LET total == Times(RowQty(rw[x]), RowUnit(x))
                IN [rw[x] EXCEPT !.lineText = formatEuro(total),
                                 !.dataValue = toFixed2(total)]]
  IN [row |-> rw1, sub |-> formatEuro(SumLines(rw1, rend, 1))]

\* computeRow(tr): the rows and the subtotal text it leaves, for the rows rw
\* of which rend are in the document, and tr = r
computeRow(rw, rend, r) ==
  LET total == Times(RowQty(rw[r]), RowUnit(r))
      rw1 == [rw EXCEPT ![r].lineText = formatEuro(total),
                         ![r].dataValue = toFixed2(total)]
  IN [row |-> rw1, sub |-> formatEuro(SumLines(rw1, rend, 1))]

\* the subtotal text of the markup for the rows of S
RECURSIVE PageSum(_, _)
PageSum(S, r) ==
  IF r > Len(Page) THEN 0
  ELSE (IF r \in S THEN Page[r].price ELSE 0) + PageSum(S, r + 1)

RECURSIVE Pending(_, _)
Pending(q, r) == IF r > Len(Page) THEN 0 ELSE q[r] + Pending(q, r + 1)

\* the awaited postForm calls of the state s
InFlight(s) == Pending(s.inflight, 1) + s.stale

\* the server's cart of the markup: one piece of each row
NoOrders == [r \in Rows |-> 1]

\* no search started: the results of the markup are shown
NoSearch ==
  [field |-> <<>>, asked |-> <<>>, status |-> <<>>, controller |-> 0,
   timer |-> FALSE, shown |-> 0, before |-> 0, loading |-> FALSE]

NoEuro == [amount |-> 0, src |-> "none", text |-> <<>>, n |-> Num(0)]

\* Cart.init on a page with or without the cart table
init(cartTable) ==
  IF cartTable THEN [input |-> 1, change |-> 1, submit |-> 1]
  ELSE [input |-> 0, change |-> 0, submit |-> 0]

\* a slip: the listeners sit on the container, which the swap replaces
ListenersOnContainer(l) == [input |-> 0, change |-> 0, submit |-> 0]

\* the listeners once root.outerHTML is assigned: the document keeps its own,
\* and markup assigned to outerHTML runs no script
ListenersAfterSwap(l) == l

Init ==
  /\ rendered = Rows
  /\ row = [r \in Rows |-> Fresh(r)]
  /\ subText = euroFormatter(PageSum(Rows, 1))
  /\ inflight = [r \in Rows |-> 0]
  /\ stale = 0
  /\ listeners = init(TRUE)
  /\ euro = NoEuro
  /\ server = NoOrders
  /\ wire = <<>>
  /\ find = NoSearch

\* onInput for an input event on the quantity control of row r, which now
\* holds t
onInput(s, r, t) ==
  LET out == computeRow([s.row EXCEPT ![r].qty = t], s.rendered, r)
  IN [s EXCEPT !.row = out.row, !.sub = out.sub]

\* onInput and onChange for an event whose target is no quantity control
onOther(s) == s

\* a slip: the request is sent and the page is left as it is
onChangeNoCompute(s, r, t) ==
  [s EXCEPT !.row[r].qty = t, !.inflight[r] = @ + 1]

\* onChange for a change event on the quantity control of row r, which now
\* holds t, up to the await of postForm
onChange(s, r, t) ==
  LET out == computeRow([s.row EXCEPT ![r].qty = t], s.rendered, r)
  IN [s EXCEPT !.row = out.row, !.sub = out.sub, !.inflight[r] = @ + 1]

\* a slip: the answer sets the display and leaves data-value as it was
ApplyLineTextOnly(rw, r, o) ==
  IF o.kind = "json" /\ o.ok /\ o.line_total.kind # "absent"
  THEN [rw EXCEPT ![r].lineText =
                    IF o.line_total_display # <<>> THEN o.line_total_display
                    ELSE formatEuro(parseEuro(FieldText(o.line_total)))]
  ELSE rw

\* the rows after the outcome o of a request of row r is handled
ApplyLine(rw, r, o) ==
  IF o.kind = "json" /\ o.ok /\ o.line_total.kind # "absent"
  THEN LET v == parseEuro(FieldText(o.line_total))
       IN [rw EXCEPT ![r].lineText = IF o.line_total_display # <<>>
                                      THEN o.line_total_display
                                      ELSE formatEuro(v),
                      ![r].dataValue = toFixed2(v)]
  ELSE rw

\* the subtotal text after the outcome o is handled
ApplySub(sub, o) ==
  IF o.kind = "json" /\ o.ok /\ o.subtotal.kind # "absent"
  THEN IF o.subtotal_display # <<>> THEN o.subtotal_display
       ELSE formatEuro(parseEuro(FieldText(o.subtotal)))
  ELSE sub

\* a slip: the answer to the last request awaited for the row is dropped
onResponseUnlessLast(s, r, k) ==
  IF s.inflight[r] = 1 THEN [s EXCEPT !.inflight[r] = 0]
  ELSE [s EXCEPT !.row = ApplyLine(s.row, r, Outcomes[k]),
                 !.sub = ApplySub(s.sub, Outcomes[k]),
                 !.inflight[r] = @ - 1]

\* onChange after the await: a request of row r comes back with the outcome o
onAnswer(s, r, o) ==
  [s EXCEPT !.row = ApplyLine(s.row, r, o),
            !.sub = ApplySub(s.sub, o),
            !.inflight[r] = @ - 1]

\* onChange after the await: a request of row r comes back with outcome k
onResponse(s, r, k) == onAnswer(s, r, Outcomes[k])

\* the same when the row of the request has left the document: what is
\* written to the row is not on the page
onStaleResponse(s, k) ==
  [s EXCEPT !.sub = ApplySub(s.sub, Outcomes[k]),
            !.stale = @ - 1]

\* onSubmit of a remove or clear form, answered with ok and html: the markup
\* of the rows of S replaces the cart container
onSubmitSwap(s, S) ==
  [rendered |-> S,
   row |-> [r \in Rows |-> Fresh(r)],
   sub |-> euroFormatter(PageSum(S, 1)),
   inflight |-> [r \in Rows |-> 0],
   stale |-> InFlight(s)]

\* onSubmit ending in location.reload(): the page is loaded anew with the
\* rows of S, and nothing of the old page is awaited
onSubmitReload(s, S) ==
  [rendered |-> S,
   row |-> [r \in Rows |-> Fresh(r)],
   sub |-> euroFormatter(PageSum(S, 1)),
   inflight |-> [r \in Rows |-> 0],
   stale |-> 0]

\* an input event from the quantity control of row r, holding t, bubbles to
\* the document: each of its n input listeners runs onInput
RECURSIVE inputEvent(_, _, _, _)
inputEvent(s, n, r, t) ==
  IF n = 0 THEN s ELSE inputEvent(onInput(s, r, t), n - 1, r, t)

\* the same for a change event and the n change listeners
RECURSIVE changeEvent(_, _, _, _)
changeEvent(s, n, r, t) ==
  IF n = 0 THEN s ELSE changeEvent(onChange(s, r, t), n - 1, r, t)

Input ==
  /\ listeners.input > 0
  /\ \E r \in rendered, t \in QtyTexts :
       Become(inputEvent(Cur, listeners.input, r, t))
  /\ UNCHANGED <<listeners, apart>>

Other == Become(onOther(Cur)) /\ UNCHANGED <<listeners, apart>>

Change ==
  /\ listeners.change > 0
  /\ InFlight(Cur) + listeners.change <= MaxInflight
  /\ \E r \in rendered, t \in QtyTexts :
       Become(changeEvent(Cur, listeners.change, r, t))
  /\ UNCHANGED <<listeners, apart>>

Response ==
  \E r \in Rows, k \in DOMAIN Outcomes :
    /\ inflight[r] > 0
    /\ Become(onResponse(Cur, r, k))
    /\ UNCHANGED <<listeners, apart>>

StaleResponse ==
  /\ stale > 0
  /\ \E k \in DOMAIN Outcomes :
       Become(onStaleResponse(Cur, k)) /\ UNCHANGED <<listeners, apart>>

SubmitSwap ==
  /\ listeners.submit > 0
  /\ rendered # {}
  /\ \E S \in SUBSET Rows : Become(onSubmitSwap(Cur, S))
  /\ listeners' = ListenersAfterSwap(listeners)
  /\ UNCHANGED apart

\* the page loaded anew runs Cart.init on its own document
SubmitReload ==
  /\ listeners.submit > 0
  /\ rendered # {}
  /\ \E S \in SUBSET Rows \ {{}} : Become(onSubmitReload(Cur, S))
  /\ listeners' = init(TRUE)
  /\ UNCHANGED apart

Next ==
  \/ Input
  \/ Other
  \/ Change
  \/ Response
  \/ StaleResponse
  \/ SubmitSwap
  \/ SubmitReload

Spec == Init /\ [][Next]_vars

(***************************************************************************)
(* The cart while no answer arrives: more quantity texts are tried.        *)
(***************************************************************************)
TypeInput ==
  /\ listeners.input > 0
  /\ \E r \in rendered, t \in TypedTexts :
       Become(inputEvent(Cur, listeners.input, r, t))
  /\ UNCHANGED <<listeners, apart>>

TypeChange ==
  /\ listeners.change > 0
  /\ InFlight(Cur) + listeners.change <= MaxInflight
  /\ \E r \in rendered, t \in TypedTexts :
       Become(changeEvent(Cur, listeners.change, r, t))
  /\ UNCHANGED <<listeners, apart>>

OfflineNext ==
  \/ TypeInput
  \/ TypeChange
  \/ SubmitSwap
  \/ SubmitReload

SpecOffline == Init /\ [][OfflineNext]_vars

(***************************************************************************)
(* The cart with a server that keeps the quantities: it takes the requests *)
(* in any order, sets the quantity of the row of the request and answers   *)
(* with ok true, the line total of that row and the subtotal of its cart   *)
(* as they are then; the answers arrive in any order.                      *)
(***************************************************************************)
\* the quantities committed
SyncTexts == {<<"2">>, <<"3">>}

\* the quantity the server reads from the posted text of digits t
ServerQty(t) == DigitsVal(t, 1, Len(t), 0)

\* the request that postForm sends for row r with the quantity field at t
Posted(r, t) ==
  [row |-> r, qty |-> ServerQty(t), served |-> FALSE, line_total |-> 0,
   subtotal |-> 0]

\* the subtotal in cents of the cart c of the server
RECURSIVE CartTotal(_, _)
CartTotal(c, r) ==
  IF r > Len(Page) THEN 0 ELSE c[r] * Page[r].price + CartTotal(c, r + 1)

\* the JSON body of the answer to the served request m
Answer(m) == Json(TRUE, JNum(m.line_total), <<>>, JNum(m.subtotal), <<>>)

\* the sequence q without its element i
Without(q, i) == SubSeq(q, 1, i - 1) \o SubSeq(q, i + 1, Len(q))

\* a change event on a quantity control: the recompute, and the request sent
SyncChange ==
  /\ listeners.change = 1
  /\ InFlight(Cur) < MaxInflight
  /\ \E r \in rendered, t \in SyncTexts :
       /\ Become(changeEvent(Cur, listeners.change, r, t))
       /\ wire' = Append(wire, Posted(r, t))
  /\ UNCHANGED <<listeners, euro, server, find>>

\* the server takes a request
Serve ==
  \E i \in DOMAIN wire :
    /\ ~wire[i].served
    /\ LET c == [server EXCEPT ![wire[i].row] = wire[i].qty]
       IN /\ server' = c
          /\ wire' = [wire EXCEPT
                        ![i].served = TRUE,
                        ![i].line_total = wire[i].qty * Page[wire[i].row].price,
                        ![i].subtotal = CartTotal(c, 1)]
    /\ UNCHANGED <<rendered, row, subText, inflight, stale, listeners, euro,
                   find>>

\* an answer arrives and the awaiting onChange goes on
Arrive ==
  \E i \in DOMAIN wire :
    /\ wire[i].served
    /\ Become(onAnswer(Cur, wire[i].row, Answer(wire[i])))
    /\ wire' = Without(wire, i)
    /\ UNCHANGED <<listeners, euro, server, find>>

SyncNext ==
  \/ SyncChange
  \/ Serve
  \/ Arrive

SpecSync == Init /\ [][SyncNext]_vars

(***************************************************************************)
(* The AJAX search.  find.status holds, per search started and in the      *)
(* order of their start, "pending" while its fetch or the reading of its   *)
(* body is awaited, "aborted" once its signal was aborted while pending,   *)
(* "rendered" once its body was written to the results container and       *)
(* "failed" once it was rejected for another reason.  find.controller is   *)
(* the search whose AbortController the variable controller holds,         *)
(* find.shown the search whose body the container shows (0: the markup),   *)
(* find.before what the container showed when the latest search started,   *)
(* find.timer whether the timeout of the input listener is pending,        *)
(* find.field the value of the query field and find.asked the query of     *)
(* each search.                                                            *)
(***************************************************************************)
\* what is typed into the query field
Queries == {<<>>, <<"t", "e", "a">>, <<" ", "t", "e", "a", " ">>, <<" ">>}

\* String.prototype.trim for texts whose only white space is the space
RECURSIVE trim(_)
trim(q) ==
  IF q = <<>> THEN q
  ELSE IF Head(q) = " " THEN trim(Tail(q))
  ELSE IF q[Len(q)] = " " THEN trim(SubSeq(q, 1, Len(q) - 1))
  ELSE q

\* searches started in all
MaxSearches == 3

cartState == <<rendered, row, subText, inflight, stale, listeners>>

\* a slip: the search before is left to run
doSearchNoAbort(f, q) ==
  [f EXCEPT !.asked = Append(f.asked, q),
            !.status = Append(f.status, "pending"),
            !.controller = Len(f.status) + 1,
            !.before = f.shown,
            !.loading = TRUE]

\* doSearch(q) up to its await, and the catch and finally of the search it
\* aborts, which run as soon as the caller returns
doSearch(f, q) ==
  LET aborts == f.controller # 0 /\ f.status[f.controller] = "pending"
      status == IF aborts THEN [f.status EXCEPT ![f.controller] = "aborted"]
                ELSE f.status
  IN [f EXCEPT !.asked = Append(f.asked, q),
               !.status = Append(status, "pending"),
               !.controller = Len(f.status) + 1,
               !.before = f.shown,
               !.loading = ~aborts]

\* doSearch after its awaits: render(await resp.text()) and the finally
searchArrives(f, i) ==
  [f EXCEPT !.status[i] = "rendered", !.shown = i, !.loading = FALSE]

\* doSearch when fetch or the reading of the body is rejected: the catch and
\* the finally
searchFails(f, i) ==
  [f EXCEPT !.status[i] = "failed", !.loading = FALSE]

\* the submit listener of the search form
SearchSubmit ==
  /\ Len(find.status) < MaxSearches
  /\ find' = doSearch(find, trim(find.field))
  /\ UNCHANGED <<cartState, euro, server, wire>>

\* the input listener of the query field: clearTimeout and setTimeout
SearchInput ==
  /\ \E q \in Queries : find' = [find EXCEPT !.field = q, !.timer = TRUE]
  /\ UNCHANGED <<cartState, euro, server, wire>>

\* the timeout of the input listener runs
SearchTimer ==
  /\ find.timer
  /\ Len(find.status) < MaxSearches
  /\ find' = doSearch([find EXCEPT !.timer = FALSE], trim(find.field))
  /\ UNCHANGED <<cartState, euro, server, wire>>

SearchArrives ==
  \E i \in DOMAIN find.status :
    /\ find.status[i] = "pending"
    /\ find' = searchArrives(find, i)
    /\ UNCHANGED <<cartState, euro, server, wire>>

SearchFails ==
  \E i \in DOMAIN find.status :
    /\ find.status[i] = "pending"
    /\ find' = searchFails(find, i)
    /\ UNCHANGED <<cartState, euro, server, wire>>

SearchNext ==
  \/ SearchSubmit
  \/ SearchInput
  \/ SearchTimer
  \/ SearchArrives
  \/ SearchFails

SpecSearch == Init /\ [][SearchNext]_vars

(***************************************************************************)
(* formatEuro, toFixed(2) and parseEuro on their own: an amount is picked, *)
(* written as currency text or as the data-value string, or a text is      *)
(* typed, and the text is parsed.                                          *)
(***************************************************************************)
\* every amount from 0 to MaxCents cents is tried
MaxCents == 120

\* whole euros around the grouping boundaries, and cents
Wholes == {1, 12, 999, 1000, 1234, 12345, 999999, 1000000, 1234567}
Fracs == {0, 5, 50, 99}

Amounts ==
  (0..MaxCents)
    \cup {w * 100 + f : w \in Wholes, f \in Fracs}
    \cup {0 - (w * 100 + f) : w \in Wholes, f \in Fracs}

\* texts holding no number
Junk ==
  {<<>>, <<"a", "b", "c">>, <<"-">>, <<",">>, <<".">>, <<NBSP, EURO>>,
   <<"N", "a", "N">>, <<"-", "-", "5">>, <<"k", ".", "A", ".">>}

\* other price texts, each with the amount in cents it stands for
Samples ==
  {[text |-> <<"E", "U", "R", " ", "1", ".", "2", "3", "4", ",", "5", "6">>,
    amount |-> 123456],
   [text |-> <<"1", "2", ".", "5">>, amount |-> 1250],
   [text |-> <<"1", ".", "2", "3", "4">>, amount |-> 123400],
   [text |-> <<"-", "3", ",", "5", " ", EURO>>, amount |-> -350],
   [text |-> <<"1", "2", ".", "3", "4", "5", ".", "6", "7", "8", ",", "9", "0">>,
    amount |-> 1234567890],
   [text |-> <<"7">>, amount |-> 700]}

EuroFormat(a) ==
  euro' = [amount |-> a, src |-> "format", text |-> formatEuro(Num(a)),
           n |-> Num(0)]

EuroFixed(a) ==
  euro' = [amount |-> a, src |-> "fixed", text |-> toFixed2(Num(a)),
           n |-> Num(0)]

EuroSample(x) ==
  euro' = [amount |-> x.amount, src |-> "sample", text |-> x.text, n |-> Num(0)]

EuroJunk(t) ==
  euro' = [amount |-> 0, src |-> "junk", text |-> t, n |-> Num(0)]

EuroParse ==
  /\ euro.src \in {"format", "fixed", "sample", "junk"}
  /\ euro' = [euro EXCEPT !.src = "parsed " \o euro.src,
                          !.n = parseEuro(euro.text)]

Format == \E a \in Amounts : EuroFormat(a) /\ UNCHANGED <<rendered, row, subText, inflight, stale, listeners, server, wire, find>>

Fixed == \E a \in Amounts : EuroFixed(a) /\ UNCHANGED <<rendered, row, subText, inflight, stale, listeners, server, wire, find>>

Sample == \E x \in Samples : EuroSample(x) /\ UNCHANGED <<rendered, row, subText, inflight, stale, listeners, server, wire, find>>

Typed == \E t \in Junk : EuroJunk(t) /\ UNCHANGED <<rendered, row, subText, inflight, stale, listeners, server, wire, find>>

Parse == EuroParse /\ UNCHANGED <<rendered, row, subText, inflight, stale, listeners, server, wire, find>>

EuroNext ==
  \/ Format
  \/ Fixed
  \/ Sample
  \/ Typed
  \/ Parse

SpecEuro == Init /\ [][EuroNext]_vars

\* C10: parsing the currency text of a two-decimal amount, or its
\* two-decimal data-value string, or a price text with other characters,
\* grouping dots and a decimal comma, gives that amount, and parsing a text
\* that holds no number gives 0.
C10_ParseRoundTrip ==
  /\ euro.src \in {"parsed format", "parsed fixed", "parsed sample"}
       => euro.n = Num(euro.amount)
  /\ euro.src = "parsed junk" => euro.n = Num(0)

\* a grouped currency text of at least 1000 euros has been parsed
C10_Witness ==
  /\ euro.src = "parsed format"
  /\ euro.amount >= 100000000
  /\ euro.n = Num(euro.amount)
  /\ \E i \in 1..Len(euro.text) : euro.text[i] = "."

(***************************************************************************)
(* What is expected of the page after the handlers have run.               *)
(***************************************************************************)
IsNatText(t) == t # <<>> /\ \A i \in 1..Len(t) : t[i] \in Digits

\* the quantity a text stands for: negative, empty and non-numeric give 0
EffQty(t) == IF IsNatText(t) THEN DigitsVal(t, 1, Len(t), 0) ELSE 0

ZeroText == <<"0", ",", "0", "0", NBSP, EURO>>
ZeroValue == <<"0", ".", "0", "0">>

\* the amount an element of class js-line-total holds: its data-value, and
\* its text where it has none
Held(el) ==
  parseEuro(IF el.dataValue # <<>> THEN el.dataValue ELSE el.lineText).c

RECURSIVE SumOver(_, _)
SumOver(S, rw) ==
  IF S = {} THEN 0
  ELSE LET r == CHOOSE x \in S : TRUE
       IN Held(rw[r]) + SumOver(S \ {r}, rw)

\* in the state s the subtotal shows the sum held by the rendered line totals
ShowsSum(s) == s.sub = euroFormatter(SumOver(s.rendered, s.row))

\* the states an input or a change event on row r with text t leads to
Recomputed(r, t) ==
  {onInput(Cur, r, t)}
    \cup (IF InFlight(Cur) < MaxInflight THEN {onChange(Cur, r, t)} ELSE {})

\* C1: after the recompute run by an input or a change event, whatever edits
\* and removals of rows came before, the subtotal shows the sum of the amounts
\* held by the line totals that are in the document, and of no other row.
C1_SubtotalIsSum ==
  \A r \in rendered, t \in TypedTexts :
    \A n \in Recomputed(r, t) : ShowsSum(n)

\* a row has left the document, the other was recomputed and is the subtotal
C1_Witness ==
  /\ rendered = {1}
  /\ row[1].qty = <<"3">>
  /\ row[1].dataValue = <<"3", "7", ".", "5", "0">>
  /\ subText = <<"3", "7", ",", "5", "0", NBSP, EURO>>

\* C2: for a quantity field holding a non-negative integer q and a row of unit
\* price p, read from data-unit where the row has one, the recompute stores
\* q * p with two decimals as data-value and shows its currency formatting.
C2_LineTotal ==
  \A r \in rendered, t \in TypedTexts :
    IsNatText(t) =>
      \A n \in Recomputed(r, t) :
        /\ n.row[r].dataValue = toFixed2(Num(EffQty(t) * Page[r].price))
        /\ n.row[r].lineText = euroFormatter(EffQty(t) * Page[r].price)

\* both rows hold the product of their quantity and unit price
C2_Witness ==
  /\ row[1].qty = <<"0", "0", "7">>
  /\ row[1].dataValue = <<"8", "7", ".", "5", "0">>
  /\ row[2].qty = <<"1", "2">>
  /\ row[2].dataValue = <<"1", "5", "0", "0", "0", ".", "0", "0">>
  /\ row[2].lineText = <<"1", "5", ".", "0", "0", "0", ",", "0", "0", NBSP, EURO>>

\* C3: a row whose quantity field was left negative, empty or holding no
\* number shows, after the recompute that the edit ran, the formatted zero
\* amount and stores the zero amount with two decimals.  (While no answer
\* arrives, a row whose quantity field holds one of the texts tried was last
\* written by the recompute of that text.)
C3_BadQuantityIsZero ==
  \A r \in rendered :
    row[r].qty \in TypedTexts /\ ~IsNatText(row[r].qty) =>
      /\ row[r].lineText = ZeroText
      /\ row[r].dataValue = ZeroValue

\* a field of an answer that holds a number or a decimal string
Supplied(f) == f.kind \in {"num", "str"}

\* the text shown for the field f with the display text d
Shown(f, d) == IF d # <<>> THEN d ELSE euroFormatter(f.c)

\* the state s holds for row r what the answer o supplies
HoldsAnswer(s, r, o) ==
  /\ Supplied(o.line_total) =>
       /\ s.row[r].dataValue = toFixed2(Num(o.line_total.c))
       /\ s.row[r].lineText = Shown(o.line_total, o.line_total_display)
  /\ Supplied(o.subtotal) =>
       s.sub = Shown(o.subtotal, o.subtotal_display)

\* an answer with ok true whose fields, where present, are amounts
Accepted(o) ==
  /\ o.kind = "json"
  /\ o.ok
  /\ o.line_total.kind # "bad"
  /\ o.subtotal.kind # "bad"

\* C4: when a request of a quantity change is answered with ok true, the row
\* of the request stores the line_total supplied, shows line_total_display or
\* else the formatted line_total, and the subtotal shows subtotal_display or
\* else the formatted subtotal, whatever the recompute had written; an answer
\* for a row that has left the document still sets the subtotal.
C4_ServerOverrides ==
  /\ \A r \in Rows, k \in DOMAIN Outcomes :
       inflight[r] > 0 /\ Accepted(Outcomes[k]) =>
         HoldsAnswer(onResponse(Cur, r, k), r, Outcomes[k])
  /\ \A k \in DOMAIN Outcomes :
       stale > 0 /\ Accepted(Outcomes[k]) /\ Supplied(Outcomes[k].subtotal) =>
         onStaleResponse(Cur, k).sub =
           Shown(Outcomes[k].subtotal, Outcomes[k].subtotal_display)

\* the recompute had written 37,50 for three pieces; the answer is on display
C4_Witness ==
  /\ row[1].qty = <<"3">>
  /\ row[1].dataValue = <<"3", "6", ".", "0", "0">>
  /\ row[1].lineText = <<"3", "6", ",", "0", "0", NBSP, EURO>>
  /\ subText = <<"3", "8", ",", "4", "9", NBSP, EURO>>
  /\ inflight[1] = 0

\* a request that failed, or an answer that is no JSON object, has no true ok
\* or has a field of the wrong shape
Rejected(o) == ~Accepted(o)

\* C5: handling a failed request, an answer that is not in the expected shape
\* or an answer whose ok is falsy changes no line total, no data-value and not
\* the subtotal.
C5_FailureChangesNothing ==
  \A r \in Rows, k \in DOMAIN Outcomes :
    inflight[r] > 0 /\ Rejected(Outcomes[k]) =>
      LET n == onResponse(Cur, r, k)
      IN n.row = row /\ n.sub = subText

\* the answers that supply both the line total and the subtotal
Full == {k \in DOMAIN Outcomes :
           /\ Accepted(Outcomes[k])
           /\ Supplied(Outcomes[k].line_total)
           /\ Supplied(Outcomes[k].subtotal)}

\* C6: with two requests of one row in flight, answered in turn with ok true,
\* a line total and a subtotal, the row and the subtotal end up holding what
\* the answer that arrived last supplies, whichever request it answers.
C6_LastArrivalWins ==
  \A r \in Rows :
    inflight[r] >= 2 =>
      \A a \in Full, b \in Full :
        LET first == onResponse(Cur, r, a)
            last == onResponse(first, r, b)
        IN /\ HoldsAnswer(first, r, Outcomes[a])
           /\ HoldsAnswer(last, r, Outcomes[b])

\* of two requests of row 1 one is answered and applied, the other in flight
C6_Witness ==
  /\ inflight[1] = 1
  /\ row[1].dataValue = <<"1", "2", "3", "4", ".", "5", "0">>
  /\ row[1].lineText = <<"1", "2", "3", "4", ",", "5", EURO>>
  /\ subText = <<"1", "2", "4", "7", EURO>>

\* C7: a change event on a quantity control leaves, with its request sent, the
\* line total of the row showing the amount of the committed quantity and the
\* subtotal showing the sum of the line totals.
C7_LocalBeforeSync ==
  \A r \in rendered, t \in QtyTexts :
    InFlight(Cur) < MaxInflight =>
      LET n == onChange(Cur, r, t)
      IN /\ n.inflight[r] = inflight[r] + 1
         /\ n.row[r].qty = t
         /\ n.row[r].lineText = euroFormatter(EffQty(t) * Page[r].price)
         /\ ShowsSum(n)

\* the request of three pieces of row 1 is in flight, the page shows 37,50
C7_Witness ==
  /\ inflight[1] = 1
  /\ row[1].qty = <<"3">>
  /\ row[1].lineText = <<"3", "7", ",", "5", "0", NBSP, EURO>>
  /\ subText = <<"1", ".", "2", "8", "7", ",", "5", "0", NBSP, EURO>>

\* C8: an input event on a quantity control sends no request, leaves the rows
\* in the document and every other row as they are; an input event on another
\* target changes nothing.
C8_InputFrame ==
  /\ \A r \in rendered, t \in QtyTexts :
       LET n == onInput(Cur, r, t)
       IN /\ n.inflight = inflight
          /\ n.stale = stale
          /\ n.rendered = rendered
          /\ \A x \in Rows \ {r} : n.row[x] = row[x]
  /\ onOther(Cur) = Cur

\* row 1 was recomputed with nothing in flight, row 2 is as the markup has it
C8_Witness ==
  /\ row[1].qty = <<"3">>
  /\ row[1].dataValue = <<"3", "7", ".", "5", "0">>
  /\ row[2] = Fresh(2)
  /\ subText = <<"1", ".", "2", "8", "7", ",", "5", "0", NBSP, EURO>>
  /\ InFlight(Cur) = 0

\* C9: a second recompute of a row, with nothing changed in between, leaves
\* every row and the subtotal as the first did, and recomputing two rows in
\* either order ends with the same rows and the same subtotal.
C9_RecomputeIdempotent ==
  /\ \A r \in rendered, t \in TypedTexts :
       LET once == onInput(Cur, r, t)
       IN onInput(once, r, t) = once
  /\ \A r \in rendered, x \in rendered :
       LET rx == computeRow(computeRow(row, rendered, r).row, rendered, x)
           xr == computeRow(computeRow(row, rendered, x).row, rendered, r)
       IN rx = xr

\* both rows were recomputed and the subtotal is their sum
C9_Witness ==
  /\ rendered = Rows
  /\ row[1].dataValue = <<"3", "7", ".", "5", "0">>
  /\ row[2].dataValue = <<"3", "7", "5", "0", ".", "0", "0">>
  /\ subText = <<"3", ".", "7", "8", "7", ",", "5", "0", NBSP, EURO>>

\* C11: the document holds one input, one change and one submit listener of
\* the cart at all times, also after the rows were replaced by a swap, and an
\* input or a change event from the quantity control of any row then in the
\* document recomputes that row and the subtotal.
C11_ListenersOnce ==
  /\ listeners = [input |-> 1, change |-> 1, submit |-> 1]
  /\ \A r \in rendered, t \in QtyTexts :
       LET n == inputEvent(Cur, listeners.input, r, t)
       IN /\ n.row[r].qty = t
          /\ n.row[r].lineText = euroFormatter(EffQty(t) * Page[r].price)
          /\ n.inflight = inflight
          /\ ShowsSum(n)
  /\ \A r \in rendered, t \in QtyTexts :
       InFlight(Cur) < MaxInflight =>
         LET n == changeEvent(Cur, listeners.change, r, t)
         IN /\ n.row[r].lineText = euroFormatter(EffQty(t) * Page[r].price)
            /\ n.inflight[r] = inflight[r] + 1
            /\ ShowsSum(n)

\* a swap left row 2 alone on the page while a request was awaited, and the
\* new row 2 was recomputed for three pieces
C11_Witness ==
  /\ stale > 0
  /\ rendered = {2}
  /\ row[2].qty = <<"3">>
  /\ row[2].dataValue = <<"3", "7", "5", "0", ".", "0", "0">>
  /\ subText = <<"3", ".", "7", "5", "0", ",", "0", "0", NBSP, EURO>>
  /\ listeners.input = 1

\* C12: with a server that answers every quantity change with ok true, the
\* line total of the row and the subtotal of its cart as of the moment it took
\* the request, the subtotal shown once no request is in flight is the sum of
\* the line totals held by the rows in the document, whatever the order of
\* the changes and of the arrivals.
C12_QuiescentConsistency ==
  InFlight(Cur) = 0 /\ wire = <<>> => ShowsSum(Cur)

\* every search started has settled
Settled == \A i \in DOMAIN find.status : find.status[i] # "pending"

\* C13: no search is pending once a later one was started, and the results
\* container shows the body of the latest search started if that one was
\* rendered, and otherwise what it showed when that search started; so it is
\* once every search has settled, whatever the order of the arrivals.
C13_LatestSearchShown ==
  /\ \A i \in DOMAIN find.status :
       find.status[i] = "pending" => i = Len(find.status)
  /\ find.status # <<>> =>
       find.shown = IF find.status[Len(find.status)] = "rendered"
                    THEN Len(find.status)
                    ELSE find.before
  /\ Settled /\ find.status # <<>> =>
       \/ find.shown = Len(find.status)
       \/ find.status[Len(find.status)] = "failed" /\ find.shown = find.before

\* the first search was aborted by the second, whose body is shown after the
\* third failed
C13_Witness ==
  /\ Settled
  /\ find.status = <<"aborted", "rendered", "failed">>
  /\ find.asked[2] = <<"t", "e", "a">>
  /\ find.shown = 2

====
